---- MODULE Spec2Model ----
(***************************************************************************)
(* Vertec VS Code extension: the chain-type resolver of AutoCompletor.ts   *)
(* (resolveChain, the variable-type tracker, provideCompletionItems) and   *)
(* the inheritance resolver of DataProvider.ts (resolveInheritance).       *)
(*                                                                         *)
(* Strings are sequences of one-character strings, so that toLowerCase,    *)
(* String.includes and the unanchored regular expressions of the source    *)
(* are computed, not assumed.  The empty sequence stands for null,         *)
(* undefined and '' alike: the source only ever tests these for            *)
(* truthiness.                                                             *)
(***************************************************************************)
EXTENDS Integers, Sequences, FiniteSets, TLC

(***************************************************************************)
(* Bounds                                                                  *)
(***************************************************************************)
\* longest document, in lines
MaxLines == 3
\* deepest recursion of collectFromClass the JavaScript call stack takes
\* before it throws RangeError (every acyclic chain of the schemas below fits)
StackLimit == 4

(***************************************************************************)
(* Identifiers of the scripts and of the schema                            *)
(***************************************************************************)
NULL == << >>

sProjekt      == <<"P","r","o","j","e","k","t">>
sProject      == <<"P","r","o","j","e","c","t">>
sProjektPhase == <<"P","r","o","j","e","k","t","P","h","a","s","e">>
sProjectPhase == <<"P","r","o","j","e","c","t","P","h","a","s","e">>
sEintrag      == <<"E","i","n","t","r","a","g">>
sEntry        == <<"E","n","t","r","y">>
sString       == <<"s","t","r","i","n","g">>
projekt       == <<"p","r","o","j","e","k","t">>
project       == <<"p","r","o","j","e","c","t">>
phasen        == <<"p","h","a","s","e","n">>
phases        == <<"p","h","a","s","e","s">>
phase         == <<"p","h","a","s","e">>
aktiv         == <<"a","k","t","i","v">>
active        == <<"a","c","t","i","v","e">>
code          == <<"c","o","d","e">>
datum         == <<"d","a","t","u","m">>
date          == <<"d","a","t","e">>
argobject     == <<"a","r","g","o","b","j","e","c","t">>
unknown_var   == <<"u","n","k","n","o","w","n","_","v","a","r">>
foo           == <<"f","o","o">>
subprojekt    == <<"s","u","b","p","r","o","j","e","k","t">>
\* the text of a subscript segment, '[0]'
Subscript0    == <<"[","0","]">>

\* String.prototype.toLowerCase, on the letters the identifiers above use
LowerChar(c) ==
    CASE c = "P" -> "p"
      [] c = "E" -> "e"
      [] c = "A" -> "a"
      [] c = "S" -> "s"
      [] c = "K" -> "k"
      [] c = "T" -> "t"
      [] c = "I" -> "i"
      [] c = "V" -> "v"
      [] c = "C" -> "c"
      [] c = "H" -> "h"
      [] OTHER   -> c

toLowerCase(s) == [i \in 1..Len(s) |-> LowerChar(s[i])]

\* String.prototype.includes
includes(hay, needle) ==
    \E i \in 0..(Len(hay) - Len(needle)) :
        SubSeq(hay, i + 1, i + Len(needle)) = needle

\* String.prototype.startsWith
startsWith(s, prefix) ==
    /\ Len(prefix) <= Len(s)
    /\ SubSeq(s, 1, Len(prefix)) = prefix

\* s ends with suffix: what an unanchored regular expression that begins
\* with an identifier matches when the identifier is followed by '\s*='
endsWith(s, suffix) ==
    /\ Len(suffix) <= Len(s)
    /\ SubSeq(s, Len(s) - Len(suffix) + 1, Len(s)) = suffix

\* const x = v; Body(x): the value v is computed once and then used
Bind(v, Body(_)) == CHOOSE out \in { Body(x) : x \in {v} } : TRUE

\* Array.prototype.find, as the index of the first element satisfying P
\* (0 when there is none)
FindIndex(seq, P(_)) ==
    Bind({ i \in 1..Len(seq) : P(seq[i]) }, LAMBDA hits :
        IF hits = {} THEN 0
        ELSE CHOOSE i \in hits : \A j \in hits : i <= j)

(***************************************************************************)
(* Schema model: VertecClass, VertecMember, VertecAssociation              *)
(***************************************************************************)
\* a class id no class of the schema carries (a dangling reference)
DanglingId == 9
NoSuperclass == 0

ClassRef(n, id) == [name |-> n, class_id |-> id]

\* VertecMember; member_type NULL when the API delivers none
Member(n, nAlt, t) == [name |-> n, name_alt |-> nAlt, member_type |-> t]

\* VertecAssociation with its two role descriptors
Association(pn, pnAlt, c1, m1, c2, m2) ==
    [perceived_name |-> pn, perceived_name_alt |-> pnAlt,
     role1_class |-> c1, is_role1_multi |-> m1,
     role2_class |-> c2, is_role2_multi |-> m2]

VertecClass(id, n, nAlt, sup, ms, as) ==
    [class_id |-> id, name |-> n, name_alt |-> nAlt, superclass |-> sup,
     members |-> ms, associations |-> as]

\* The association Projekt (role1) -- ProjektPhase (role2), listed on both
\* classes under the name a script author types on that side.
\*   m1, m2 : is_role1_multi, is_role2_multi
\*   tAktiv : declared type of ProjektPhase.aktiv
\*   extra  : further members of ProjektPhase (a member 'projekt' that
\*            shares its name with the association, or none)
\*   sup    : superclass id per class id
ClassSet(sup, m1, m2, tAktiv, extra) ==
    LET r1 == ClassRef(sProjekt, 1)
        r2 == ClassRef(sProjektPhase, 2)
    IN << VertecClass(1, sProjekt, sProject, sup[1],
              << Member(code, code, sString) >>,
              << Association(phasen, phases, r1, m1, r2, m2) >>),
          VertecClass(2, sProjektPhase, sProjectPhase, sup[2],
              << Member(aktiv, active, tAktiv) >> \o extra,
              << Association(projekt, project, r1, m1, r2, m2) >>),
          VertecClass(3, sEintrag, sEntry, sup[3],
              << Member(datum, date, sString) >>,
              << >>) >>

ClassIds == 1..3

\* Projekt and ProjektPhase both derive from Eintrag
TreeSup == (1 :> 3) @@ (2 :> 3) @@ (3 :> NoSuperclass)
\* malformed data: Eintrag names itself as its superclass
SelfSup == (1 :> 3) @@ (2 :> 3) @@ (3 :> 3)

\* schemas the chain resolver is run against
ChainSchemas ==
    { ClassSet(TreeSup, m1, m2, sProjekt, << >>) : m1, m2 \in BOOLEAN }
    \cup { ClassSet(TreeSup, TRUE, FALSE, sProjekt, << Member(projekt, project, t) >>) :
                t \in {NULL, sString} }
    \cup { ClassSet(SelfSup, FALSE, TRUE, sProjekt, << >>) }

\* schemas the inheritance resolver is run against: every superclass
\* reference the API can deliver, cyclic and dangling ones included
InheritanceSchemas ==
    { ClassSet(sup, FALSE, TRUE, sProjekt, << >>) :
        sup \in [ClassIds -> ClassIds \cup {NoSuperclass, DanglingId}] }

(***************************************************************************)
(* VertecModelHelper                                                       *)
(***************************************************************************)
\* findClass: the first class whose name or name_alt equals className,
\* ignoring case; the index into classes, 0 for null
findClass(classes, className) ==
    Bind(toLowerCase(className), LAMBDA lowerClassName :
        FindIndex(classes, LAMBDA cls :
           \/ toLowerCase(cls.name) = lowerClassName
           \/ toLowerCase(cls.name_alt) = lowerClassName))

\* mapMemberTypeToClassName: a direct match first, then the first class
\* whose name or name_alt contains the type; NULL when neither exists
mapMemberTypeToClassName(memberType, classes) ==
    Bind(toLowerCase(memberType), LAMBDA typeLower :
    Bind(FindIndex(classes, LAMBDA c :
            \/ toLowerCase(c.name) = typeLower
            \/ toLowerCase(c.name_alt) = typeLower), LAMBDA directMatch :
        IF directMatch # 0 THEN classes[directMatch].name
        ELSE Bind(FindIndex(classes, LAMBDA c :
                \/ includes(toLowerCase(c.name), typeLower)
                \/ includes(toLowerCase(c.name_alt), typeLower)),
             LAMBDA partialMatch :
                IF partialMatch # 0 THEN classes[partialMatch].name
                ELSE NULL)))

(***************************************************************************)
(* Inheritance resolver                                                    *)
(***************************************************************************)
\* sourceClass: currentClass.name_alt || currentClass.name
sourceClassOf(currentClass) ==
    IF currentClass.name_alt # NULL THEN currentClass.name_alt
    ELSE currentClass.name

\* Enrich that leaves sourceClass unset
Enrich_untagged(item, currentClass) ==
    [sourceClass |-> NULL] @@ item

\* the spread { ...item, sourceClass } of collectFromClass
Enrich(item, currentClass) ==
    [sourceClass |-> sourceClassOf(currentClass)] @@ item

\* the members collectFromClass pushes for currentClass itself
ownMembers(currentClass) ==
    [i \in 1..Len(currentClass.members) |->
        Enrich(currentClass.members[i], currentClass)]

\* the associations collectFromClass pushes for currentClass itself
ownAssociations(currentClass) ==
    [i \in 1..Len(currentClass.associations) |->
        Enrich(currentClass.associations[i], currentClass)]

\* the class collectFromClass recurses into: the index of the first class
\* whose class_id is the superclass reference, 0 when currentClass has no
\* superclass reference or no class carries that id
superclassOf(currentClass, allClasses) ==
    IF currentClass.superclass = NoSuperclass THEN 0
    ELSE FindIndex(allClasses, LAMBDA cls :
             cls.class_id = currentClass.superclass)

RECURSIVE collectFromClass(_, _, _)
\* collectFromClass at recursion depth `depth`; overflow when the recursion
\* exceeds the call stack
collectFromClass(currentClass, allClasses, depth) ==
    IF depth > StackLimit
    THEN [members |-> << >>, associations |-> << >>, overflow |-> TRUE]
    ELSE Bind(superclassOf(currentClass, allClasses), LAMBDA sup :
         Bind(IF sup = 0
              THEN [members |-> << >>, associations |-> << >>,
                    overflow |-> FALSE]
              ELSE collectFromClass(allClasses[sup], allClasses, depth + 1),
              LAMBDA rest :
            [members      |-> ownMembers(currentClass) \o rest.members,
             associations |-> ownAssociations(currentClass) \o rest.associations,
             overflow     |-> rest.overflow]))

resolveInheritance(targetClass, allClasses) ==
    collectFromClass(targetClass, allClasses, 1)

(***************************************************************************)
(* Association role resolver (DataProvider.getAssociationRoleInfo)         *)
(***************************************************************************)
RoleInfo(c, m) == [role_class |-> c, is_role_multi |-> m]

\* getAssociationRoleInfo that takes role1 for the near end whatever the
\* viewing class is
getAssociationRoleInfo_role1Near(assoc, currentClass, allClasses, useFarRole) ==
    IF useFarRole
    THEN RoleInfo(assoc.role1_class, assoc.is_role1_multi)
    ELSE RoleInfo(assoc.role2_class, assoc.is_role2_multi)

\* The role seen from currentClass.  With useFarRole = FALSE the data of the
\* role at the other end from currentClass; with useFarRole = TRUE the
\* complementary role.  When neither role's class is currentClass, role1
\* stands for the near end.
getAssociationRoleInfo(assoc, currentClass, allClasses, useFarRole) ==
    LET role1 == RoleInfo(assoc.role1_class, assoc.is_role1_multi)
        role2 == RoleInfo(assoc.role2_class, assoc.is_role2_multi)
        nearIsRole2 == /\ assoc.role1_class.class_id # currentClass.class_id
                       /\ assoc.role2_class.class_id = currentClass.class_id
        near == IF nearIsRole2 THEN role2 ELSE role1
        far  == IF nearIsRole2 THEN role1 ELSE role2
    IN IF useFarRole THEN near ELSE far

(***************************************************************************)
(* Source text: a document is a sequence of lines, each of one of the      *)
(* shapes the regular expressions of the variable-type tracker tell apart  *)
(*   assign  :  <var> = <expr>            (hint NULL)                      *)
(*              <var> = <expr>  # type: <hint>                             *)
(*   for     :  for <var> in <expr>:                                       *)
(*   comment :  # type: <hint>                                             *)
(*   def     :  def f(<var>):  # type: (<hint>)     at column 0            *)
(*   idef    :      def f(<var>):  # type: (<hint>) indented (a method)    *)
(*   other   :  a line none of the expressions matches                     *)
(* <expr> is a chain text: identifiers joined by '.', and subscripts.      *)
(***************************************************************************)
Line(k, v, e, h) == [kind |-> k, var |-> v, expr |-> e, hint |-> h]

Assign(v, e, h) == Line("assign", v, e, h)
ForLoop(v, e)   == Line("for", v, e, NULL)
Comment(h)      == Line("comment", NULL, << >>, h)
Def(v, h)       == Line("def", v, << >>, h)
IndentedDef(v, h) == Line("idef", v, << >>, h)
Other           == Line("other", NULL, << >>, NULL)

\* parseChainParts: one part per segment of the chain text
parseChainParts(chain) ==
    [i \in 1..Len(chain) |->
        IF startsWith(chain[i], <<"[">>)
        THEN [name |-> NULL, isListAccess |-> TRUE]
        ELSE [name |-> chain[i], isListAccess |-> FALSE]]

\* inlineRegex  ${variableName}\s*=.*#\s*type:\s*([\w]+)  : the hint, or NULL
inlineMatch(line, variableName) ==
    IF /\ line.kind = "assign"
       /\ endsWith(line.var, variableName)
    THEN line.hint ELSE NULL

\* forLoopRegex  for\s+${variableName}\s+in\s+(...)\s*:  : does it match
forLoopMatch(line, variableName) ==
    /\ line.kind = "for"
    /\ line.var = variableName

\* assignmentRegex  ${variableName}\s*=\s*(...)  : does it match
assignmentMatch(line, variableName) ==
    /\ line.kind = "assign"
    /\ endsWith(line.var, variableName)

\* prevLine.match(/#\s*type:\s*([\w]+)/) : the hint, or NULL.  The
\* annotation of a def line opens with '(' and does not match.
typeMatch(prevLine) ==
    IF prevLine.kind \in {"assign", "comment"} THEN prevLine.hint ELSE NULL

\* paramRegex  def\s+\w+\s*\([^)]*${variableName}[^)]*\).*#\s*type:\s*\(([^)]+)\)
\* : types[0], or NULL
paramMatch(line, variableName) ==
    IF /\ line.kind \in {"def", "idef"}
       /\ includes(line.var, variableName)
    THEN line.hint ELSE NULL

\* line.match(/^(def|class)\s+/): the expression is anchored at the start
\* of the line and allows no leading blanks
isBoundary(line) == line.kind = "def"

\* the type hint on the line before line i (1-based), NULL on the first line
prevLineHint(doc, i) == IF i > 1 THEN typeMatch(doc[i - 1]) ELSE NULL

(***************************************************************************)
(* Chain resolver and variable-type tracker.                               *)
(* A call ends in one of two ways: it returns {className, isList} ("ok"),  *)
(* or it rejects with a RangeError ("throw"), either that of               *)
(* resolveInheritance or its own, when the resolution of an assignment     *)
(* recurses into the same line until the call stack is exhausted.          *)
(***************************************************************************)
Returns(c, l) == [kind |-> "ok", className |-> c, isList |-> l]
NullResult    == Returns(NULL, FALSE)
Throws        == [kind |-> "throw", className |-> NULL, isList |-> FALSE]

\* Nested resolveChain calls go to lines at or above the caller's line with
\* the expression of that line, so a nesting deeper than the document has
\* lines (plus the outermost call) repeats a call: the calls nest before
\* any await is reached, so the repetition ends in a RangeError.
Fuel == MaxLines + 2

\* outcomes of one iteration of the loop of resolveChain: continue with a new
\* running state, or return {null, false} at once
Continue(c, l) == [kind |-> "ok", className |-> c, isList |-> l]
ReturnNull     == [kind |-> "return", className |-> NULL, isList |-> FALSE]

\* listAccess without the test that the running state is a list
listAccess_unchecked(st) ==
    Continue(st.className, FALSE)

\* a subscript part: only on a list, and a single element afterwards
listAccess(st) ==
    IF ~st.isList THEN ReturnNull
    ELSE Continue(st.className, FALSE)

\* lookupMember that compares the names with the segment as it was typed
lookupMember_caseSensitive(enrichedMembers, name) ==
    FindIndex(enrichedMembers, LAMBDA m : m.name = name \/ m.name_alt = name)

\* members.find(...): index of the member a segment names, 0 for none
lookupMember(enrichedMembers, name) ==
    Bind(toLowerCase(name), LAMBDA lowerName :
        FindIndex(enrichedMembers, LAMBDA m :
            \/ toLowerCase(m.name) = lowerName
            \/ toLowerCase(m.name_alt) = lowerName))

\* associations.find(...): index of the association a segment names
lookupAssociation(enrichedAssociations, name) ==
    Bind(toLowerCase(name), LAMBDA lowerName :
        FindIndex(enrichedAssociations, LAMBDA a :
            \/ toLowerCase(a.perceived_name) = lowerName
            \/ /\ a.perceived_name_alt # NULL
               /\ toLowerCase(a.perceived_name_alt) = lowerName))

\* the step through a matched association: the class of roleInfo, the
\* multiplicity of roleInfo2.  An absent role_class is ClassRef(NULL, 0).
associationAccess(association, currentClass, classes) ==
    LET roleInfo  == getAssociationRoleInfo(association, currentClass, classes, FALSE)
        roleInfo2 == getAssociationRoleInfo(association, currentClass, classes, TRUE)
    IN IF roleInfo.role_class.name # NULL
       THEN Continue(roleInfo.role_class.name, roleInfo2.is_role_multi = TRUE)
       ELSE ReturnNull

\* the step through a matched member that has a declared type
memberAccess(member, classes) ==
    Bind(mapMemberTypeToClassName(member.member_type, classes),
         LAMBDA mappedType :
            IF mappedType # NULL THEN Continue(mappedType, FALSE)
            ELSE ReturnNull)

\* namedAccess that goes on to the associations when the declared type of
\* the matched member maps to no class
namedAccess_fallThrough(classes, part, st) ==
    Bind(findClass(classes, st.className), LAMBDA ci :
      IF ci = 0 THEN ReturnNull
      ELSE
        Bind(resolveInheritance(classes[ci], classes), LAMBDA inh :
        Bind(lookupMember(inh.members, part.name), LAMBDA mi :
        Bind(lookupAssociation(inh.associations, part.name), LAMBDA ai :
          IF inh.overflow THEN Throws
          ELSE IF /\ mi # 0
                  /\ inh.members[mi].member_type # NULL
                  /\ memberAccess(inh.members[mi], classes).kind = "ok"
               THEN memberAccess(inh.members[mi], classes)
          ELSE IF ai # 0
               THEN associationAccess(inh.associations[ai], classes[ci], classes)
          ELSE ReturnNull))))

\* a named part on a single element: a member of the flattened class first,
\* an association otherwise
namedAccess(classes, part, st) ==
    Bind(findClass(classes, st.className), LAMBDA ci :
      IF ci = 0 THEN ReturnNull
      ELSE
        Bind(resolveInheritance(classes[ci], classes), LAMBDA inh :
        Bind(lookupMember(inh.members, part.name), LAMBDA mi :
        Bind(lookupAssociation(inh.associations, part.name), LAMBDA ai :
          IF inh.overflow THEN Throws
          ELSE IF mi # 0 /\ inh.members[mi].member_type # NULL
               THEN memberAccess(inh.members[mi], classes)
          ELSE IF ai # 0
               THEN associationAccess(inh.associations[ai], classes[ci], classes)
          ELSE ReturnNull))))

\* walkPart without the test that forbids a named part on a list
walkPart_namedOnList(classes, part, st) ==
    IF part.isListAccess THEN listAccess(st)
    ELSE namedAccess(classes, part, st)

\* one iteration of the loop of resolveChain over a part, from the running
\* state st = {className, isList}
walkPart(classes, part, st) ==
    IF part.isListAccess THEN listAccess(st)
    ELSE IF st.isList THEN ReturnNull
    ELSE namedAccess(classes, part, st)

RECURSIVE walk(_, _, _, _)
\* the loop of resolveChain from part i on
walk(classes, parts, i, st) ==
    IF i > Len(parts) THEN Returns(st.className, st.isList)
    ELSE Bind(walkPart(classes, parts[i], st), LAMBDA r :
            IF r.kind = "ok" THEN walk(classes, parts, i + 1, r)
            ELSE IF r.kind = "return" THEN NullResult
            ELSE r)

RECURSIVE resolveChain(_, _, _, _, _)
RECURSIVE findVariableTypeSimple(_, _, _, _, _)
RECURSIVE isVariableAList(_, _, _, _, _)
RECURSIVE findVariableAssignmentWithListInfo(_, _, _, _, _)

\* resolveExpressionWithListInfo: resolveChain at the end of currentLine
resolveExpressionWithListInfo(classes, doc, currentLine, expression, fuel) ==
    resolveChain(classes, doc, currentLine, expression, fuel)

\* resolveExpression: the class name, null when the expression is a list
resolveExpression(classes, doc, currentLine, expression, fuel) ==
    Bind(resolveChain(classes, doc, currentLine, expression, fuel), LAMBDA r :
        IF r.kind # "ok" THEN r
        ELSE IF r.isList THEN NullResult
        ELSE Returns(r.className, FALSE))

\* findVariableTypeSimple, scanning from line i upwards; className is the
\* returned string (NULL for null), isList is unused
findVariableTypeSimple(classes, doc, i, variableName, fuel) ==
    IF i < 1 THEN NullResult
    ELSE LET line == doc[i] IN
      IF inlineMatch(line, variableName) # NULL
      THEN Returns(inlineMatch(line, variableName), FALSE)
      ELSE IF forLoopMatch(line, variableName)
      THEN IF prevLineHint(doc, i) # NULL
           THEN Returns(prevLineHint(doc, i), FALSE)
           ELSE Bind(IF Len(line.expr) = 1
                     THEN findVariableAssignmentWithListInfo(
                              classes, doc, i, line.expr[1], fuel)
                     ELSE resolveExpressionWithListInfo(
                              classes, doc, i, line.expr, fuel),
                     LAMBDA info :
                        IF info.kind # "ok" THEN info
                        ELSE IF info.isList /\ info.className # NULL
                        THEN Returns(info.className, FALSE)
                        ELSE NullResult)
      ELSE IF assignmentMatch(line, variableName)
      THEN IF prevLineHint(doc, i) # NULL
           THEN Returns(prevLineHint(doc, i), FALSE)
           ELSE resolveExpression(classes, doc, i, line.expr, fuel)
      ELSE IF paramMatch(line, variableName) # NULL
      THEN Returns(paramMatch(line, variableName), FALSE)
      ELSE IF isBoundary(line) THEN NullResult
      ELSE findVariableTypeSimple(classes, doc, i - 1, variableName, fuel)

\* findVariableAssignmentWithListInfo, scanning from line i upwards; null
\* (no assignment found) is {null, false}: the caller tests both alike
findVariableAssignmentWithListInfo(classes, doc, i, variableName, fuel) ==
    IF i < 1 THEN NullResult
    ELSE LET line == doc[i] IN
      IF assignmentMatch(line, variableName)
      THEN IF prevLineHint(doc, i) # NULL
           THEN Returns(prevLineHint(doc, i), FALSE)
           ELSE resolveExpressionWithListInfo(classes, doc, i, line.expr, fuel)
      ELSE IF isBoundary(line) THEN NullResult
      ELSE findVariableAssignmentWithListInfo(classes, doc, i - 1, variableName, fuel)

\* isVariableAList, scanning from line i upwards; isList is the returned
\* boolean, className is unused
isVariableAList(classes, doc, i, variableName, fuel) ==
    IF i < 1 THEN NullResult
    ELSE LET line == doc[i] IN
      IF assignmentMatch(line, variableName)
      THEN Bind(resolveExpressionWithListInfo(classes, doc, i, line.expr, fuel),
                LAMBDA resolvedInfo :
                    IF resolvedInfo.kind # "ok" THEN resolvedInfo
                    ELSE Returns(NULL, resolvedInfo.isList))
      ELSE IF isBoundary(line) THEN NullResult
      ELSE isVariableAList(classes, doc, i - 1, variableName, fuel)

\* what getClasses returns when getModel throws: null (the schemas of the
\* resolver are never an empty array, which stands for null here)
NoClasses == << >>

\* the part of resolveChain before its loop: parse the chain, find the type
\* of the base variable, get the classes, and find whether the base
\* variable holds a list.  kind "ok" with the seed of the running state,
\* "return" for an early return of {null, false}
seedChain(classes, doc, line, chain, fuel) ==
    Bind(parseChainParts(chain), LAMBDA parts :
      IF Len(parts) = 0 THEN ReturnNull
      ELSE
        Bind(findVariableTypeSimple(classes, doc, line, parts[1].name, fuel),
             LAMBDA t :
          IF t.kind # "ok" THEN t
          ELSE IF t.className = NULL THEN ReturnNull
          ELSE IF classes = NoClasses THEN ReturnNull
          ELSE
            Bind(isVariableAList(classes, doc, line, parts[1].name, fuel),
                 LAMBDA l :
                    IF l.kind # "ok" THEN l
                    ELSE Continue(t.className, l.isList))))

\* resolveChain(document, position, chain) with position on `line`
resolveChain(classes, doc, line, chain, fuel) ==
    IF fuel = 0 THEN Throws
    ELSE Bind(seedChain(classes, doc, line, chain, fuel - 1), LAMBDA seed :
            IF seed.kind = "ok"
            THEN walk(classes, parseChainParts(chain), 2, seed)
            ELSE IF seed.kind = "return" THEN NullResult
            ELSE seed)

(***************************************************************************)
(* Completion surface                                                      *)
(***************************************************************************)
\* generateCompletionItems: the labels of the items, members first
generateCompletionItems(cls, allClasses) ==
    Bind(resolveInheritance(cls, allClasses), LAMBDA inh :
        [i \in 1..Len(inh.members) |-> inh.members[i].name]
        \o [i \in 1..Len(inh.associations) |->
                inh.associations[i].perceived_name])

\* what provideCompletionItems returns
Undefined == [defined |-> FALSE, labels |-> << >>]
Items(ls) == [defined |-> TRUE, labels |-> ls]

(***************************************************************************)
(* Inputs                                                                  *)
(***************************************************************************)
\* the lines a script is written from
Lines ==
    { Assign(projekt, <<argobject>>, sProjekt),
      Assign(phasen, <<projekt, phasen>>, NULL),
      Assign(phasen, <<projekt, phasen>>, sProjektPhase),
      Assign(phase, <<phase, projekt>>, NULL),
      Other }

\* the chains completion is requested for
Chains ==
    { <<projekt, phasen>>,
      <<projekt, phasen, Subscript0, aktiv>>,
      <<projekt, phasen, aktiv>>,
      <<projekt, Subscript0>>,
      <<projekt, phasen, Subscript0, projekt>>,
      <<phasen, Subscript0, aktiv>>,
      <<phasen, aktiv>>,
      <<phase, projekt>>,
      <<unknown_var, foo>> }

(***************************************************************************)
(* DataCache: an in-memory entry per cache and the entries persisted in    *)
(* globalState.  The state of the two caches and of globalState is a       *)
(* record S with                                                           *)
(*   S.mem[c]       the in-memory entry of cache c                         *)
(*   S.gsData[c]    globalState under the cacheDataKey of cache c          *)
(*   S.gsTimestamp  globalState under CACHE_TIMESTAMP_KEY, the             *)
(*                  cacheTimestampKey of both caches                       *)
(*   S.pending      the globalState updates of clearGlobalState and        *)
(*                  saveToGlobalState that wait behind an await            *)
(***************************************************************************)
\* MODEL_CACHE and TRANSLATIONS_CACHE
CacheNames == {"model", "translations"}

\* the configured CacheLifetime in days (the default is 30)
CACHE_LIFETIME == 1

Second == 1000
\* Date.now() when the extension is first activated: a positive number
Start == Second
\* cacheLifetimeDays * 24 * 60 * 60 * 1000
maxAge(cacheLifetimeDays) == cacheLifetimeDays * 24 * 60 * 60 * 1000

\* a snapshot: the list a fetch delivered, and when it was delivered
Snapshot(list, fetched) == [list |-> list, fetched |-> fetched]
NoSnapshot == Snapshot(<< >>, 0)

\* a value of globalState, or of a return value T[] | null: present or not
StoredData(data) == [present |-> TRUE, value |-> data]
AbsentData       == [present |-> FALSE, value |-> NoSnapshot]
StoredTimestamp(timestamp) == [present |-> TRUE, value |-> timestamp]
AbsentTimestamp            == [present |-> FALSE, value |-> 0]

\* an entry of the Map of a DataCache
Entry(data, timestamp) == [present |-> TRUE, data |-> data, timestamp |-> timestamp]
NoEntry == [present |-> FALSE, data |-> NoSnapshot, timestamp |-> 0]

\* isExpired with maxAge taken for milliseconds without the factor 1000
isExpired_seconds(timestamp, t) ==
    (t - timestamp) > CACHE_LIFETIME * 24 * 60 * 60

\* const age = Date.now() - timestamp; const isExpired = age > maxAge
isExpired(timestamp, t) ==
    (t - timestamp) > maxAge(CACHE_LIFETIME)

\* clearGlobalState: the update of the data key takes effect in the call,
\* the update of the timestamp key after the await on the first
clearGlobalState(S, c) ==
    [S EXCEPT !.gsData[c] = AbsentData,
              !.pending = Append(@, AbsentTimestamp)]

\* saveToGlobalState, likewise
saveToGlobalState(S, c, data, timestamp) ==
    [S EXCEPT !.gsData[c] = StoredData(data),
              !.pending = Append(@, StoredTimestamp(timestamp))]

\* loadFromGlobalState at time t
loadFromGlobalState(S, c, t) ==
    IF S.gsData[c].present /\ S.gsTimestamp.present /\ S.gsTimestamp.value # 0
    THEN IF ~isExpired(S.gsTimestamp.value, t)
         THEN [S EXCEPT !.mem[c] = Entry(S.gsData[c].value, S.gsTimestamp.value)]
         ELSE clearGlobalState(S, c)
    ELSE S

\* initialize(context)
initialize(S, c, t) == loadFromGlobalState(S, c, t)

\* initializeCaches(context)
initializeCaches(S, t) == initialize(initialize(S, "model", t), "translations", t)

\* get that returns null for an expired entry and leaves it where it is
get_noPurge(S, c, t) ==
    IF ~S.mem[c].present THEN [S |-> S, value |-> AbsentData]
    ELSE IF isExpired(S.mem[c].timestamp, t)
    THEN [S |-> S, value |-> AbsentData]
    ELSE [S |-> S, value |-> StoredData(S.mem[c].data)]

\* get() at time t: the state after the call and the returned value
get(S, c, t) ==
    IF ~S.mem[c].present THEN [S |-> S, value |-> AbsentData]
    ELSE IF isExpired(S.mem[c].timestamp, t)
    THEN [S |-> clearGlobalState([S EXCEPT !.mem[c] = NoEntry], c),
          value |-> AbsentData]
    ELSE [S |-> S, value |-> StoredData(S.mem[c].data)]

\* set(data) at time t
set(S, c, data, t) ==
    saveToGlobalState([S EXCEPT !.mem[c] = Entry(data, t)], c, data, t)

\* clear()
clear(S, c) == clearGlobalState([S EXCEPT !.mem[c] = NoEntry], c)

(***************************************************************************)
(* getModel: the paginated fetch of the two language variants and the      *)
(* merge                                                                   *)
(***************************************************************************)
\* names as the API spells them
sPhasen == <<"P","h","a","s","e","n">>
sPhases == <<"P","h","a","s","e","s">>

\* the fields of a VertecAssociation and of a VertecClass that the fetch
\* and the merge read or write
ApiAssociation(n, pn) ==
    [name |-> n, perceived_name |-> pn, perceived_name_alt |-> NULL]
ApiClass(id, n, nAlt, as) ==
    [class_id |-> id, name |-> n, name_alt |-> nAlt, associations |-> as]

\* the ids of the classes the API serves, and the class it serves under an
\* id in a language variant
ApiIds == {1, 2}
ApiResult(language, id) ==
    IF id = 1
    THEN ApiClass(1, sProjekt, sProject,
             << ApiAssociation(sPhasen,
                    IF language = "de" THEN sPhasen ELSE sPhases) >>)
    ELSE ApiClass(2, sProjektPhase, sProjectPhase, << >>)

\* response.data.results of a page that lists the classes with these ids
Results(language, page) ==
    [i \in 1..Len(page) |-> ApiResult(language, page[i])]

normalizeVertecAssociation(assoc) ==
    [assoc EXCEPT !.name = toLowerCase(@),
                  !.perceived_name = toLowerCase(@),
                  !.perceived_name_alt = IF @ = NULL THEN NULL ELSE toLowerCase(@)]

normalizeVertecClass(vertecClass) ==
    [vertecClass EXCEPT !.associations =
        [i \in 1..Len(@) |-> normalizeVertecAssociation(@[i])]]

\* the results of a page as loadModelFromUrl pushes them to allResults
normalizedResults(language, page) ==
    IF language = "de"
    THEN [i \in 1..Len(page) |-> normalizeVertecClass(Results(language, page)[i])]
    ELSE Results(language, page)

\* Map.get on a Map filled by forEach(... map.set(key(item), item)): the
\* index of the last item under the key, 0 for undefined
LastWith(items, Key(_), k) ==
    LET hits == { i \in 1..Len(items) : Key(items[i]) = k }
    IN IF hits = {} THEN 0 ELSE CHOOSE i \in hits : \A j \in hits : j <= i

classIdOf(item) == item.class_id
lowerNameOf(assoc) == toLowerCase(assoc.name)

\* the map over germanClass.associations
updatedAssociations(germanClass, englishClass) ==
    [i \in 1..Len(germanClass.associations) |->
        LET germanAssoc == germanClass.associations[i]
            e == LastWith(englishClass.associations, lowerNameOf, germanAssoc.name)
        IN IF e # 0
           THEN [germanAssoc EXCEPT !.perceived_name_alt =
                    toLowerCase(englishClass.associations[e].perceived_name)]
           ELSE germanAssoc]

\* mergeEnglishPerceivedNames: one result per item of germanResults
mergeEnglishPerceivedNames(germanResults, englishResults) ==
    [i \in 1..Len(germanResults) |->
        LET germanClass == germanResults[i]
            e == LastWith(englishResults, classIdOf, germanClass.class_id)
        IN IF e = 0 THEN germanClass
           ELSE IF Len(germanClass.associations) = 0 THEN germanClass
           ELSE IF Len(englishResults[e].associations) = 0 THEN germanClass
           ELSE [germanClass EXCEPT !.associations =
                    updatedAssociations(germanClass, englishResults[e])]]

\* the getModel calls that can await the API at a time: one that missed
\* the cache and one that reloadModel made
Origins == {"miss", "reload"}

\* the locals of a getModel call that awaits the API: the language variant
\* being loaded, the pages loaded of it, allResults, and germanResults once
\* the German variant is complete
Load(language, pages, allResults, germanResults) ==
    [language |-> language, pages |-> pages, allResults |-> allResults,
     germanResults |-> germanResults]
NoLoad == Load("de", 0, << >>, << >>)

(***************************************************************************)
(* State                                                                   *)
(***************************************************************************)
VARIABLES
    schema,     \* the class set getClasses returns
    document,   \* the lines of the active document down to the cursor line
                \* (the resolver reads no line below position.line)
    pc,         \* where the request in flight stands
    position,   \* the line of the cursor (1-based)
    chain,      \* the chain text of the request
    idx,        \* the loop variable i of resolveChain (1-based)
    cur,        \* the running state {currentClassName, isList}
    result,     \* what resolveChain returned
    items,      \* what provideCompletionItems returned
    target,     \* resolveInheritance: index of targetClass in schema
    stack,      \* resolveInheritance: class indices of the open calls
    members,    \* resolveInheritance: EnrichedVertecMembers
    associations, \* resolveInheritance: EnrichedVertecAssociations
    ipc,        \* resolveInheritance: where the call stands
    now,        \* Date.now()
    cache,      \* the Map entry of MODEL_CACHE and of TRANSLATIONS_CACHE
    gsData,     \* globalState under CACHE_MODEL_KEY / CACHE_TRANSLATION_KEY
    gsTimestamp, \* globalState under CACHE_TIMESTAMP_KEY
    pending,    \* globalState updates that wait behind an await
    inflight,   \* per cache, who awaits a fetch from the API
    ret,        \* what getModel / getTranslations returned last
    loading,    \* per getModel call that awaits the API, the locals of
                \* its loadModelFromUrl calls
    activeEditor, \* vscode.window.activeTextEditor is set
    fileText,   \* the text of the document of the active editor
    clipboard,  \* the text on the system clipboard
    cmp,        \* compareClipboard: where the call stands, and its locals
    browse      \* modelBrowse: where the call stands, the detail panel and
                \* the promise of showClassDetailView

uiVars == <<activeEditor, fileText, clipboard, cmp, browse>>
reqVars == <<pc, position, chain, idx, cur, result, items>>
inhVars == <<target, stack, members, associations, ipc>>
cacheVars == <<now, cache, gsData, gsTimestamp, pending, inflight, ret,
               loading>>
vars == <<schema, document, pc, position, chain, idx, cur, result, items,
          target, stack, members, associations, ipc,
          now, cache, gsData, gsTimestamp, pending, inflight, ret, loading,
          activeEditor, fileText, clipboard, cmp, browse>>

NoRunning == [className |-> NULL, isList |-> FALSE]

InitRequest ==
    /\ pc = "idle"
    /\ position = 0
    /\ chain = << >>
    /\ idx = 0
    /\ cur = NoRunning
    /\ result = NullResult
    /\ items = Undefined

InitInheritance ==
    /\ target = 0
    /\ stack = << >>
    /\ members = << >>
    /\ associations = << >>
    /\ ipc = "idle"

\* compareClipboard is not running
NoCompare == [pc |-> "idle", currentContent |-> << >>,
              clipboardContent |-> << >>, comparison |-> FALSE,
              choice |-> "none"]

\* no member or association is selected
NoData == [kind |-> "none", index |-> 0]

\* modelBrowse is not running
NoBrowse == [pc |-> "idle", selectedClass |-> 0, data |-> NoData,
             panel |-> "none", settled |-> "pending", inbox |-> << >>]

\* no command of the extension runs, an empty file is open
InitUi ==
    /\ activeEditor = TRUE
    /\ fileText = << >>
    /\ clipboard = << >>
    /\ cmp = NoCompare
    /\ browse = NoBrowse

\* what a caller holds before getModel / getTranslations returned
NoReturn == [op |-> "none", hit |-> FALSE, value |-> AbsentData, at |-> 0]

\* the extension was activated on an empty globalState
InitCache ==
    /\ now = Start
    /\ cache = [c \in CacheNames |-> NoEntry]
    /\ gsData = [c \in CacheNames |-> AbsentData]
    /\ gsTimestamp = AbsentTimestamp
    /\ pending = << >>
    /\ inflight = [c \in CacheNames |-> {}]
    /\ loading = [origin \in Origins |-> NoLoad]
    /\ ret = NoReturn

Init ==
    /\ schema \in ChainSchemas
    /\ document = << >>
    /\ InitRequest
    /\ InitInheritance
    /\ InitCache
    /\ InitUi

(***************************************************************************)
(* Actions of the completion provider                                      *)
(***************************************************************************)
\* the user adds a line to the script
EditDocument(line) ==
    /\ pc = "idle"
    /\ Len(document) < MaxLines
    /\ document' = Append(document, line)
    /\ UNCHANGED <<uiVars, schema, reqVars, inhVars, cacheVars>>

\* provideCompletionItems up to the loop of resolveChain: the chain before
\* the last dot is fullChain, resolveChain parses it and seeds the running
\* state from the base variable
\* (the cursor is on the last line: the resolver reads the cursor line and
\* the lines above it only, so lines below the cursor change nothing)
ProvideCompletionItems(fullChain) ==
    /\ pc = "idle"
    /\ Len(document) >= 1
    /\ \E seed \in {seedChain(schema, document, Len(document), fullChain, Fuel - 1)} :
          /\ pc' = CASE seed.kind = "ok"     -> "walk"
                     [] seed.kind = "return" -> "resolved"
                     [] seed.kind = "throw"  -> "threw"
          /\ cur' = IF seed.kind = "ok"
                    THEN [className |-> seed.className, isList |-> seed.isList]
                    ELSE NoRunning
    /\ position' = Len(document)
    /\ chain' = fullChain
    /\ idx' = 2
    /\ result' = NullResult
    /\ items' = Undefined
    /\ UNCHANGED <<uiVars, schema, document, inhVars, cacheVars>>

\* WalkStep that returns the running state when a part fails
WalkStep_partial ==
    /\ pc = "walk"
    /\ idx <= Len(chain)
    /\ \E r \in {walkPart(schema, parseChainParts(chain)[idx], cur)} :
          /\ pc' = CASE r.kind = "ok"     -> "walk"
                     [] r.kind = "return" -> "resolved"
                     [] r.kind = "throw"  -> "threw"
          /\ cur' = IF r.kind = "ok"
                    THEN [className |-> r.className, isList |-> r.isList]
                    ELSE cur
          /\ idx' = IF r.kind = "ok" THEN idx + 1 ELSE idx
          /\ result' = IF r.kind = "return"
                       THEN Returns(cur.className, cur.isList)
                       ELSE NullResult
    /\ UNCHANGED <<uiVars, schema, document, position, chain, items, inhVars, cacheVars>>

\* one iteration of the loop of resolveChain
WalkStep ==
    /\ pc = "walk"
    /\ idx <= Len(chain)
    /\ \E r \in {walkPart(schema, parseChainParts(chain)[idx], cur)} :
          /\ pc' = CASE r.kind = "ok"     -> "walk"
                     [] r.kind = "return" -> "resolved"
                     [] r.kind = "throw"  -> "threw"
          /\ cur' = IF r.kind = "ok"
                    THEN [className |-> r.className, isList |-> r.isList]
                    ELSE cur
          /\ idx' = IF r.kind = "ok" THEN idx + 1 ELSE idx
    /\ result' = NullResult
    /\ UNCHANGED <<uiVars, schema, document, position, chain, items, inhVars, cacheVars>>

\* the loop of resolveChain is through: return {currentClassName, isList}
WalkReturn ==
    /\ pc = "walk"
    /\ idx > Len(chain)
    /\ result' = Returns(cur.className, cur.isList)
    /\ pc' = "resolved"
    /\ UNCHANGED <<uiVars, schema, document, position, chain, idx, cur, items, inhVars, cacheVars>>

\* provideCompletionItems after resolveChain returned
Complete ==
    /\ pc = "resolved"
    /\ IF result.isList \/ result.className = NULL
       THEN items' = Undefined /\ pc' = "completed"
       ELSE IF Len(schema) = 0
       THEN items' = Undefined /\ pc' = "completed"
       ELSE \E ci \in {findClass(schema, result.className)} :
            IF ci = 0
            THEN items' = Undefined /\ pc' = "completed"
            ELSE IF resolveInheritance(schema[ci], schema).overflow
            THEN items' = Undefined /\ pc' = "threw"
            ELSE /\ items' = Items(generateCompletionItems(schema[ci], schema))
                 /\ pc' = "completed"
    /\ UNCHANGED <<uiVars, schema, document, position, chain, idx, cur, result, inhVars, cacheVars>>

\* the request settled (a list of items, undefined, or a rejection): the
\* editor is ready for the next edit or request
Dismiss ==
    /\ pc \in {"completed", "threw"}
    /\ pc' = "idle"
    /\ position' = 0
    /\ chain' = << >>
    /\ idx' = 0
    /\ cur' = NoRunning
    /\ result' = NullResult
    /\ items' = Undefined
    /\ UNCHANGED <<uiVars, schema, document, inhVars, cacheVars>>

Next ==
    \/ \E line \in Lines : EditDocument(line)
    \/ \E fullChain \in Chains : ProvideCompletionItems(fullChain)
    \/ WalkStep
    \/ WalkReturn
    \/ Complete
    \/ Dismiss

Spec == Init /\ [][Next]_vars

(***************************************************************************)
(* The completion provider on scripts with loops and function definitions  *)
(***************************************************************************)
\* the lines such a script is written from
TrackerLines ==
    { Assign(projekt, <<argobject>>, sProjekt),
      Assign(phasen, <<projekt, phasen>>, NULL),
      ForLoop(phase, <<projekt, phasen>>),
      ForLoop(phase, <<phasen>>),
      Comment(sEintrag),
      Def(projekt, sProjekt),
      IndentedDef(foo, NULL),
      Assign(subprojekt, <<argobject>>, sEintrag) }

\* the chains completion is requested for
TrackerChains ==
    { <<projekt>>, <<phase>>, <<phase, aktiv>>, <<phasen, Subscript0>> }

TrackerSchemas ==
    { ClassSet(TreeSup, m1, m2, sProjekt, << >>) : m1, m2 \in BOOLEAN }

InitTracker ==
    /\ schema \in TrackerSchemas
    /\ document = << >>
    /\ InitRequest
    /\ InitInheritance
    /\ InitCache
    /\ InitUi

NextTracker ==
    \/ \E line \in TrackerLines : EditDocument(line)
    \/ \E fullChain \in TrackerChains : ProvideCompletionItems(fullChain)
    \/ WalkStep
    \/ WalkReturn
    \/ Complete
    \/ Dismiss

SpecTracker == InitTracker /\ [][NextTracker]_vars

(***************************************************************************)
(* The completion provider on segments typed in upper, lower and mixed     *)
(* case                                                                    *)
(***************************************************************************)
\* segments as a script author may type them
Aktiv  == <<"A","k","t","i","v">>
AKTIV  == <<"A","K","T","I","V">>
ACTIVE == <<"A","C","T","I","V","E">>
PHASES == <<"P","H","A","S","E","S">>

CaseLines == { Assign(projekt, <<argobject>>, sProjekt), Other }

CaseChains ==
    { <<projekt, phasen, Subscript0, segment>> :
         segment \in {aktiv, Aktiv, AKTIV, active, ACTIVE} }
    \cup { <<projekt, segment>> : segment \in {phasen, sPhasen, phases, PHASES} }

\* schemas in which the declared type of ProjektPhase.aktiv is the name of
\* a class, the alternate name of a class, a part of the name of a class,
\* or none of these
TypeSchemas ==
    { ClassSet(TreeSup, TRUE, FALSE, t, << >>) :
         t \in {sProjekt, sProject, phase, sString} }

InitCase ==
    /\ schema \in ChainSchemas \cup TypeSchemas
    /\ document = << >>
    /\ InitRequest
    /\ InitInheritance
    /\ InitCache
    /\ InitUi

NextCase ==
    \/ \E line \in CaseLines : EditDocument(line)
    \/ \E fullChain \in CaseChains : ProvideCompletionItems(fullChain)
    \/ WalkStep
    \/ WalkReturn
    \/ Complete
    \/ Dismiss

SpecCase == InitCase /\ [][NextCase]_vars

(***************************************************************************)
(* Actions of the data provider: the two caches, globalState, the clock    *)
(***************************************************************************)
\* the longest the clock runs, in cache lifetimes, and the most globalState
\* updates that wait at a time
MaxPeriods == 1
MaxPending == 1

\* the instants the clock shows: the start, and one second before and one
\* second after each multiple of the lifetime
Instants ==
    {Start} \cup { Start + d * maxAge(CACHE_LIFETIME) + j * Second :
                      d \in 1..MaxPeriods, j \in {-1, 1} }

\* the lists the API delivers for a cache
Lists(c) == IF c = "model" THEN { << >>, <<1>> } ELSE { <<7>> }

\* the state of the caches and of globalState, and a step to state S
Store == [mem |-> cache, gsData |-> gsData, gsTimestamp |-> gsTimestamp,
          pending |-> pending]
Install(S) ==
    /\ Len(S.pending) <= MaxPending
    /\ cache' = S.mem
    /\ gsData' = S.gsData
    /\ gsTimestamp' = S.gsTimestamp
    /\ pending' = S.pending

Returned(op, hit, value) == [op |-> op, hit |-> hit, value |-> value, at |-> now]

\* getModel / getTranslations: the fetch is awaited (a second call of the
\* same origin while the first one waits is left out)
StartFetch(c, origin) ==
    /\ origin \notin inflight[c]
    /\ inflight' = [inflight EXCEPT ![c] = @ \cup {origin}]

\* GetData that takes an empty list in the cache for a miss
GetData_emptyIsMiss(c) ==
    /\ ret = NoReturn
    /\ \E r \in {get(Store, c, now)} :
          /\ Install(r.S)
          /\ IF r.value.present /\ Len(r.value.value.list) > 0
             THEN ret' = Returned(c, TRUE, r.value) /\ inflight' = inflight
             ELSE ret' = ret /\ StartFetch(c, "miss")
    /\ UNCHANGED <<uiVars, schema, document, reqVars, inhVars, loading, now>>

\* getModel(false) / getTranslations(false) up to the return from the
\* cache or to the await of the fetch
GetData(c) ==
    /\ ret = NoReturn
    /\ \E r \in {get(Store, c, now)} :
          /\ Install(r.S)
          /\ IF r.value.present
             THEN ret' = Returned(c, TRUE, r.value) /\ inflight' = inflight
             ELSE ret' = ret /\ StartFetch(c, "miss")
    /\ UNCHANGED <<uiVars, schema, document, reqVars, inhVars, loading, now>>

GetModel == GetData("model")
GetTranslations == GetData("translations")

\* clearModelCache / clearTranslationsCache
ClearCache(c) ==
    /\ Install(clear(Store, c))
    /\ UNCHANGED <<uiVars, schema, document, reqVars, inhVars, loading, now, inflight, ret>>

ClearModelCache == ClearCache("model")
ClearTranslationsCache == ClearCache("translations")

\* reloadModel / reloadTranslations up to the await of the fetch
Reload(c) ==
    /\ Install(clear(Store, c))
    /\ StartFetch(c, "reload")
    /\ UNCHANGED <<uiVars, schema, document, reqVars, inhVars, loading, now, ret>>

ReloadModel == Reload("model")
ReloadTranslations == Reload("translations")

\* the API delivered list: getModel / getTranslations stores it in the
\* cache and returns it
FetchDone(c, list) ==
    /\ ret = NoReturn
    /\ \E origin \in inflight[c] :
          inflight' = [inflight EXCEPT ![c] = @ \ {origin}]
    /\ Install(set(Store, c, Snapshot(list, now), now))
    /\ ret' = Returned(c, FALSE, StoredData(Snapshot(list, now)))
    /\ UNCHANGED <<uiVars, schema, document, reqVars, inhVars, loading, now>>

\* FetchFail that stores an empty list in the cache before it throws
FetchFail_cachesEmpty(c) ==
    /\ \E origin \in inflight[c] :
          inflight' = [inflight EXCEPT ![c] = @ \ {origin}]
    /\ Install(set(Store, c, Snapshot(<< >>, now), now))
    /\ UNCHANGED <<uiVars, schema, document, reqVars, inhVars, loading, now, ret>>

\* the fetch failed: getModel / getTranslations throws
FetchFail(c) ==
    /\ \E origin \in inflight[c] :
          inflight' = [inflight EXCEPT ![c] = @ \ {origin}]
    /\ UNCHANGED <<uiVars, schema, document, reqVars, inhVars, loading, now, cache, gsData,
                   gsTimestamp, pending, ret>>

\* the await in clearGlobalState / saveToGlobalState is over: the update of
\* the timestamp key
Flush ==
    /\ Len(pending) > 0
    /\ gsTimestamp' = Head(pending)
    /\ pending' = Tail(pending)
    /\ UNCHANGED <<uiVars, schema, document, reqVars, inhVars, loading, now, cache, gsData,
                   inflight, ret>>

\* time passes
Advance(t) ==
    /\ t > now
    /\ now' = t
    /\ UNCHANGED <<uiVars, schema, document, reqVars, inhVars, loading, cache, gsData,
                   gsTimestamp, pending, inflight, ret>>

\* the extension host restarts: what is in memory and what awaits is gone,
\* activate calls initializeCaches
Restart ==
    /\ Install(initializeCaches(
           [Store EXCEPT !.mem = [c \in CacheNames |-> NoEntry],
                         !.pending = << >>], now))
    /\ inflight' = [c \in CacheNames |-> {}]
    /\ loading' = [origin \in Origins |-> NoLoad]
    /\ ret' = NoReturn
    /\ UNCHANGED <<uiVars, schema, document, reqVars, inhVars, now>>

\* the caller has taken what getModel / getTranslations returned
Consume ==
    /\ ret # NoReturn
    /\ ret' = NoReturn
    /\ UNCHANGED <<uiVars, schema, document, reqVars, inhVars, loading, now, cache, gsData,
                   gsTimestamp, pending, inflight>>

InitData ==
    /\ schema = ClassSet(TreeSup, FALSE, TRUE, sProjekt, << >>)
    /\ document = << >>
    /\ InitRequest
    /\ InitInheritance
    /\ InitCache
    /\ InitUi

NextData ==
    \/ GetModel
    \/ GetTranslations
    \/ ClearModelCache
    \/ ClearTranslationsCache
    \/ ReloadModel
    \/ ReloadTranslations
    \/ \E c \in CacheNames : \E list \in Lists(c) : FetchDone(c, list)
    \/ \E c \in CacheNames : FetchFail(c)
    \/ Flush
    \/ \E t \in Instants : Advance(t)
    \/ Restart
    \/ Consume

SpecData == InitData /\ [][NextData]_vars

(***************************************************************************)
(* getModel page by page, called by the completion provider and by         *)
(* reloadModel                                                             *)
(***************************************************************************)
\* the most pages the API serves of a language variant
MaxPages == 2

\* the pages the API serves: one class a page, under pagination that is
\* free to serve a class again on a later page
Pages == { <<id>> : id \in ApiIds }

\* VertecModelHelper.getClasses, as provideCompletionItems and resolveChain
\* call it: getModel(false), up to the return from the cache or to the
\* await of the first page
GetClasses == GetModel

\* the response to axios.get(currentUrl) of the getModel call of this
\* origin: the page is pushed to allResults; with response.data.next set
\* the loop goes on, without it loadModelFromUrl returns: after the German
\* variant the English one is loaded, after the English one the merged
\* results are stored in MODEL_CACHE and returned
LoadPage(origin, page, next) ==
    /\ origin \in inflight["model"]
    /\ loading[origin].pages < MaxPages
    /\ next => loading[origin].pages + 1 < MaxPages
    /\ \E l \in {loading[origin]} :
       \E allResults \in {l.allResults \o normalizedResults(l.language, page)} :
          IF next
          THEN /\ loading' = [loading EXCEPT ![origin] =
                      Load(l.language, l.pages + 1, allResults, l.germanResults)]
               /\ UNCHANGED <<cache, gsData, gsTimestamp, pending, inflight, ret>>
          ELSE IF l.language = "de"
          THEN /\ loading' = [loading EXCEPT ![origin] =
                      Load("en", 0, << >>, allResults)]
               /\ UNCHANGED <<cache, gsData, gsTimestamp, pending, inflight, ret>>
          ELSE \E mergedResults \in
                    {mergeEnglishPerceivedNames(l.germanResults, allResults)} :
                  /\ ret = NoReturn
                  /\ loading' = [loading EXCEPT ![origin] = NoLoad]
                  /\ inflight' = [inflight EXCEPT !["model"] = @ \ {origin}]
                  /\ Install(set(Store, "model", Snapshot(mergedResults, now), now))
                  /\ ret' = Returned("model", FALSE,
                                     StoredData(Snapshot(mergedResults, now)))
    /\ UNCHANGED <<uiVars, schema, document, reqVars, inhVars, now>>

InitFetch ==
    /\ schema = ClassSet(TreeSup, FALSE, TRUE, sProjekt, << >>)
    /\ document = << >>
    /\ InitRequest
    /\ InitInheritance
    /\ InitCache
    /\ InitUi

NextFetch ==
    \/ GetClasses
    \/ ReloadModel
    \/ \E origin \in Origins : \E page \in Pages : \E next \in BOOLEAN :
          LoadPage(origin, page, next)
    \/ Flush
    \/ Consume

SpecFetch == InitFetch /\ [][NextFetch]_vars

(***************************************************************************)
(* The completion provider while the API cannot be reached: every fetch    *)
(* fails, getModel throws and getClasses returns null                      *)
(***************************************************************************)
InitOffline ==
    /\ schema = NoClasses
    /\ document = << >>
    /\ InitRequest
    /\ InitInheritance
    /\ InitCache
    /\ InitUi

NextOffline ==
    \/ \E line \in Lines : EditDocument(line)
    \/ \E fullChain \in Chains : ProvideCompletionItems(fullChain)
    \/ Complete
    \/ Dismiss
    \/ GetClasses
    \/ FetchFail("model")

SpecOffline == InitOffline /\ [][NextOffline]_vars

(***************************************************************************)
(* compareClipboard, and the user at the editor and the clipboard while    *)
(* the command awaits                                                      *)
(***************************************************************************)
\* the longest text of the file
MaxText == 2

\* the characters the user types, and the texts the user copies
Chars == {"a", "b"}
Copied == { << >>, <<"a">>, <<"b">>, <<"a","b">> }

\* what the prompt resolves to: a button, or undefined when it is dismissed
Choices == {"Yes", "No", "undefined"}

\* document.positionAt(offset): an offset past the end is the end
positionAt(text, offset) == IF offset > Len(text) THEN Len(text) ELSE offset

\* applyEdit of edit.replace(uri, Range(positionAt(0), positionAt(length)),
\* content) on a document that holds text
applyEdit(text, length, content) ==
    content \o SubSeq(text, positionAt(text, length) + 1, Len(text))

\* the command is invoked: without an active editor it warns and returns,
\* with one it awaits clipboard.readText()
CompareClipboard ==
    /\ cmp.pc = "idle"
    /\ cmp' = IF ~activeEditor THEN NoCompare
              ELSE [NoCompare EXCEPT !.pc = "readText"]
    /\ UNCHANGED <<activeEditor, fileText, clipboard>>
    /\ UNCHANGED <<schema, document, reqVars, inhVars, cacheVars, browse>>

\* readText resolved: return on an empty clipboard and on identical
\* content, open the clipboard content in a new document otherwise
ReadText ==
    /\ cmp.pc = "readText"
    /\ cmp' = IF clipboard = << >> \/ fileText = clipboard
              THEN NoCompare
              ELSE [cmp EXCEPT !.pc = "openTextDocument",
                               !.clipboardContent = clipboard,
                               !.currentContent = fileText]
    /\ UNCHANGED <<activeEditor, fileText, clipboard>>
    /\ UNCHANGED <<schema, document, reqVars, inhVars, cacheVars, browse>>

\* the new document is open beside the editor, the diff is shown and the
\* prompt is up
ShowDiff ==
    /\ cmp.pc = "openTextDocument"
    /\ cmp' = [cmp EXCEPT !.pc = "prompt", !.comparison = TRUE]
    /\ UNCHANGED <<activeEditor, fileText, clipboard>>
    /\ UNCHANGED <<schema, document, reqVars, inhVars, cacheVars, browse>>

\* the prompt resolved: on 'Yes' the range of the content read at the
\* start is replaced by the clipboard content; the comparison document is
\* closed
Answer(choice) ==
    /\ cmp.pc = "prompt"
    /\ fileText' = IF choice = "Yes"
                   THEN applyEdit(fileText, Len(cmp.currentContent),
                                  cmp.clipboardContent)
                   ELSE fileText
    /\ cmp' = [cmp EXCEPT !.pc = "idle", !.comparison = FALSE,
                          !.choice = choice]
    /\ UNCHANGED <<activeEditor, clipboard>>
    /\ UNCHANGED <<schema, document, reqVars, inhVars, cacheVars, browse>>

\* the user types a character at the end of the file
UserTypes(ch) ==
    /\ activeEditor
    /\ Len(fileText) < MaxText
    /\ fileText' = Append(fileText, ch)
    /\ UNCHANGED <<activeEditor, clipboard, cmp>>
    /\ UNCHANGED <<schema, document, reqVars, inhVars, cacheVars, browse>>

\* the user copies a text
UserCopies(text) ==
    /\ clipboard' = text
    /\ UNCHANGED <<activeEditor, fileText, cmp>>
    /\ UNCHANGED <<schema, document, reqVars, inhVars, cacheVars, browse>>

\* the user closes the last editor, or opens the file again, while no
\* command runs
UserTogglesEditor ==
    /\ cmp.pc = "idle"
    /\ activeEditor' = ~activeEditor
    /\ UNCHANGED <<fileText, clipboard, cmp>>
    /\ UNCHANGED <<schema, document, reqVars, inhVars, cacheVars, browse>>

InitCompare ==
    /\ schema = ClassSet(TreeSup, FALSE, TRUE, sProjekt, << >>)
    /\ document = << >>
    /\ InitRequest
    /\ InitInheritance
    /\ InitCache
    /\ InitUi

NextCompare ==
    \/ CompareClipboard
    \/ ReadText
    \/ ShowDiff
    \/ \E choice \in Choices : Answer(choice)
    \/ \E ch \in Chars : UserTypes(ch)
    \/ \E text \in Copied : UserCopies(text)
    \/ UserTogglesEditor

SpecCompare == InitCompare /\ [][NextCompare]_vars

(***************************************************************************)
(* modelBrowse: the class list, the member / association list of a class,  *)
(* the detail panel, and the user at the lists and at the panel            *)
(***************************************************************************)
\* the most messages of the webview that wait to be delivered
MaxInbox == 2

\* resolve that settles the promise again when it is settled already
resolve_lastWins(settled, value) == value

\* resolve(value) of the promise of showClassDetailView: a settled promise
\* keeps its value
resolve(settled, value) == IF settled = "pending" THEN value ELSE settled

\* the entries of the member / association list that carry data
DataItems(vertecClass, allClasses) ==
    LET enriched == resolveInheritance(vertecClass, allClasses)
    IN { [kind |-> "member", index |-> i] :
             i \in 1..Len(enriched.members) }
       \cup { [kind |-> "association", index |-> i] :
                 i \in 1..Len(enriched.associations) }

\* the command is invoked: without classes it warns and returns, with
\* classes it shows the class list
ModelBrowse ==
    /\ browse.pc = "idle"
    /\ browse' = IF schema = NoClasses THEN NoBrowse
                 ELSE [NoBrowse EXCEPT !.pc = "classes"]
    /\ UNCHANGED <<activeEditor, fileText, clipboard, cmp>>
    /\ UNCHANGED <<schema, document, reqVars, inhVars, cacheVars>>

\* the user picks a class: showClassDetails shows its list
SelectClass(i) ==
    /\ browse.pc = "classes"
    /\ i \in 1..Len(schema)
    /\ browse' = [NoBrowse EXCEPT !.pc = "details", !.selectedClass = i]
    /\ UNCHANGED <<activeEditor, fileText, clipboard, cmp>>
    /\ UNCHANGED <<schema, document, reqVars, inhVars, cacheVars>>

\* the user dismisses the class list: modelBrowse returns
CancelClasses ==
    /\ browse.pc = "classes"
    /\ browse' = NoBrowse
    /\ UNCHANGED <<activeEditor, fileText, clipboard, cmp>>
    /\ UNCHANGED <<schema, document, reqVars, inhVars, cacheVars>>

\* the user picks 'back to classes': showClassDetails returns true and the
\* loop of modelBrowse shows the class list again
SelectBack ==
    /\ browse.pc = "details"
    /\ browse' = [NoBrowse EXCEPT !.pc = "classes"]
    /\ UNCHANGED <<activeEditor, fileText, clipboard, cmp>>
    /\ UNCHANGED <<schema, document, reqVars, inhVars, cacheVars>>

\* the user dismisses the member / association list: showClassDetails
\* returns false and the loop of modelBrowse ends
CancelDetails ==
    /\ browse.pc = "details"
    /\ browse' = NoBrowse
    /\ UNCHANGED <<activeEditor, fileText, clipboard, cmp>>
    /\ UNCHANGED <<schema, document, reqVars, inhVars, cacheVars>>

\* the user picks a member or an association: showClassDetailView creates
\* the panel and registers the two handlers
SelectData ==
    /\ browse.pc = "details"
    /\ \E item \in DataItems(schema[browse.selectedClass], schema) :
          browse' = [browse EXCEPT !.pc = "view", !.data = item,
                                  !.panel = "open", !.settled = "pending",
                                  !.inbox = << >>]
    /\ UNCHANGED <<activeEditor, fileText, clipboard, cmp>>
    /\ UNCHANGED <<schema, document, reqVars, inhVars, cacheVars>>

\* the user clicks the back button of the panel: the webview posts
\* {command: 'goBack'}
PostGoBack ==
    /\ browse.panel = "open"
    /\ Len(browse.inbox) < MaxInbox
    /\ browse' = [browse EXCEPT !.inbox = Append(@, "goBack")]
    /\ UNCHANGED <<activeEditor, fileText, clipboard, cmp>>
    /\ UNCHANGED <<schema, document, reqVars, inhVars, cacheVars>>

\* onDidReceiveMessage: on 'goBack' resolve(true), then panel.dispose(),
\* which runs the onDidDispose handler and its resolve(false)
OnDidReceiveMessage ==
    /\ browse.panel = "open"
    /\ browse.inbox # << >>
    /\ browse' = IF Head(browse.inbox) = "goBack"
                 THEN [browse EXCEPT
                          !.settled = resolve(resolve(@, "true"), "false"),
                          !.panel = "disposed",
                          !.inbox = Tail(@)]
                 ELSE [browse EXCEPT !.inbox = Tail(@)]
    /\ UNCHANGED <<activeEditor, fileText, clipboard, cmp>>
    /\ UNCHANGED <<schema, document, reqVars, inhVars, cacheVars>>

\* the user closes the panel: onDidDispose with its resolve(false)
OnDidDispose ==
    /\ browse.panel = "open"
    /\ browse' = [browse EXCEPT !.settled = resolve(@, "false"),
                                !.panel = "disposed"]
    /\ UNCHANGED <<activeEditor, fileText, clipboard, cmp>>
    /\ UNCHANGED <<schema, document, reqVars, inhVars, cacheVars>>

\* a message posted to a panel that is disposed by now reaches no handler
DropMessage ==
    /\ browse.panel = "disposed"
    /\ browse.inbox # << >>
    /\ browse' = [browse EXCEPT !.inbox = Tail(@)]
    /\ UNCHANGED <<activeEditor, fileText, clipboard, cmp>>
    /\ UNCHANGED <<schema, document, reqVars, inhVars, cacheVars>>

\* the await on showClassDetailView is over: on true showClassDetails
\* calls itself on the same class, on false it returns false and the loop
\* of modelBrowse ends
ShowClassDetailViewReturns ==
    /\ browse.pc = "view"
    /\ browse.settled # "pending"
    /\ browse' = IF browse.settled = "true"
                 THEN [NoBrowse EXCEPT !.pc = "details",
                                       !.selectedClass = browse.selectedClass]
                 ELSE NoBrowse
    /\ UNCHANGED <<activeEditor, fileText, clipboard, cmp>>
    /\ UNCHANGED <<schema, document, reqVars, inhVars, cacheVars>>

InitBrowse ==
    /\ schema \in ChainSchemas \cup {NoClasses}
    /\ document = << >>
    /\ InitRequest
    /\ InitInheritance
    /\ InitCache
    /\ InitUi

NextBrowse ==
    \/ ModelBrowse
    \/ \E i \in 1..Len(schema) : SelectClass(i)
    \/ CancelClasses
    \/ SelectBack
    \/ CancelDetails
    \/ SelectData
    \/ PostGoBack
    \/ OnDidReceiveMessage
    \/ OnDidDispose
    \/ DropMessage
    \/ ShowClassDetailViewReturns

SpecBrowse == InitBrowse /\ [][NextBrowse]_vars

(***************************************************************************)
(* Actions of the inheritance resolver, one collectFromClass call a step   *)
(***************************************************************************)
\* resolveInheritance(targetClass, allClasses) is called: the first
\* collectFromClass call is for the target
InhCall(t) ==
    /\ ipc = "idle"
    /\ target' = t
    /\ stack' = <<t>>
    /\ members' = << >>
    /\ associations' = << >>
    /\ ipc' = "collect"
    /\ UNCHANGED <<uiVars, schema, document, reqVars, cacheVars>>

\* InhCollect that puts the items of an ancestor before those collected so far
InhCollect_ancestorsFirst ==
    /\ ipc = "collect"
    /\ LET currentClass == schema[stack[Len(stack)]]
           sup == superclassOf(currentClass, schema)
       IN /\ members' = ownMembers(currentClass) \o members
          /\ associations' = ownAssociations(currentClass) \o associations
          /\ IF sup = 0
             THEN ipc' = "done" /\ stack' = stack
             ELSE IF Len(stack) >= StackLimit
             THEN ipc' = "overflow" /\ stack' = stack
             ELSE ipc' = "collect" /\ stack' = Append(stack, sup)
    /\ UNCHANGED <<uiVars, schema, document, reqVars, target, cacheVars>>

\* InhCollect without the test `if (superclass)`: the call on the undefined
\* result of find throws
InhCollect_unguarded ==
    /\ ipc = "collect"
    /\ LET currentClass == schema[stack[Len(stack)]]
           sup == superclassOf(currentClass, schema)
       IN /\ members' = members \o ownMembers(currentClass)
          /\ associations' = associations \o ownAssociations(currentClass)
          /\ IF currentClass.superclass = NoSuperclass
             THEN ipc' = "done" /\ stack' = stack
             ELSE IF sup = 0 \/ Len(stack) >= StackLimit
             THEN ipc' = "overflow" /\ stack' = stack
             ELSE ipc' = "collect" /\ stack' = Append(stack, sup)
    /\ UNCHANGED <<uiVars, schema, document, reqVars, target, cacheVars>>

\* the body of the collectFromClass call on top of the stack: push the
\* class's own items, then recurse into the superclass if it is found.
\* When no superclass is found every open call returns.
InhCollect ==
    /\ ipc = "collect"
    /\ LET currentClass == schema[stack[Len(stack)]]
           sup == superclassOf(currentClass, schema)
       IN /\ members' = members \o ownMembers(currentClass)
          /\ associations' = associations \o ownAssociations(currentClass)
          /\ IF sup = 0
             THEN ipc' = "done" /\ stack' = stack
             ELSE IF Len(stack) >= StackLimit
             THEN ipc' = "overflow" /\ stack' = stack
             ELSE ipc' = "collect" /\ stack' = Append(stack, sup)
    /\ UNCHANGED <<uiVars, schema, document, reqVars, target, cacheVars>>

\* the caller has taken the result (or the RangeError)
InhReturn ==
    /\ ipc \in {"done", "overflow"}
    /\ target' = 0
    /\ stack' = << >>
    /\ members' = << >>
    /\ associations' = << >>
    /\ ipc' = "idle"
    /\ UNCHANGED <<uiVars, schema, document, reqVars, cacheVars>>

InitInh ==
    /\ schema \in InheritanceSchemas
    /\ document = << >>
    /\ InitRequest
    /\ InitInheritance
    /\ InitCache
    /\ InitUi

NextInh ==
    \/ \E t \in ClassIds : InhCall(t)
    \/ InhCollect
    \/ InhReturn

SpecInh == InitInh /\ [][NextInh]_vars

(***************************************************************************)
(* Properties                                                              *)
(***************************************************************************)
TypeOK ==
    /\ pc \in {"idle", "walk", "resolved", "completed", "threw"}
    /\ Len(document) <= MaxLines

\* the part the loop of resolveChain is at
Part == parseChainParts(chain)[idx]
\* the loop of resolveChain is about to run an iteration
AtPart == pc = "walk" /\ idx <= Len(chain)
\* resolveChain returned from inside the loop, at part idx
FailedAtPart == pc = "resolved" /\ idx <= Len(chain)

\* the role of an association at the other end from class cls, and its
\* multiplicity flag
FarClass(assoc, cls) ==
    IF assoc.role1_class.class_id = cls.class_id
    THEN assoc.role2_class ELSE assoc.role1_class
FarMulti(assoc, cls) ==
    IF assoc.role1_class.class_id = cls.class_id
    THEN assoc.is_role2_multi ELSE assoc.is_role1_multi

\* the class of the running state, its flattened items, and the member and
\* association the part at idx names (0 for none)
CurClass == schema[findClass(schema, cur.className)]
CurItems == resolveInheritance(CurClass, schema)
NamedMember == lookupMember(CurItems.members, Part.name)
NamedAssociation == lookupAssociation(CurItems.associations, Part.name)
\* a named part meets a single element of a known class
NamedOnElement ==
    /\ ~Part.isListAccess
    /\ ~cur.isList
    /\ findClass(schema, cur.className) # 0
    /\ ~CurItems.overflow

\* C1: with `phasen = projekt.phasen` (un-annotated, projekt of type
\* Projekt, the association multi-valued towards ProjektPhase, whose member
\* aktiv has a class type) above the cursor line, resolveChain of
\* `phasen[0].aktiv` returns a non-null type with isList = false.
C1_AssignedListVariableResolves ==
    ( /\ pc = "resolved"
      /\ document = << Assign(projekt, <<argobject>>, sProjekt),
                       Assign(phasen, <<projekt, phasen>>, NULL),
                       Other >>
      /\ position = 3
      /\ chain = <<phasen, Subscript0, aktiv>>
      /\ schema[1].associations[1].is_role2_multi
      /\ schema[2].members[1].member_type = sProjekt )
    => ( result.className # NULL /\ ~result.isList )

\* C2: a step through an association of the current class takes the new
\* type and the new collection flag from the same role, the one at the far
\* end from the current class.
C2_AssociationStepUsesFarRole ==
    [][ ( /\ AtPart
          /\ NamedOnElement
          /\ NamedMember = 0
          /\ NamedAssociation # 0 )
        => ( /\ pc' = "walk"
             /\ cur'.className =
                    FarClass(CurItems.associations[NamedAssociation], CurClass).name
             /\ cur'.isList =
                    FarMulti(CurItems.associations[NamedAssociation], CurClass) )
      ]_vars

\* C3: a subscript on a non-collection makes resolveChain return
\* {null, false}; on a collection it keeps the current type and leaves a
\* single element.
C3_Subscript ==
    [][ ( AtPart /\ Part.isListAccess )
        => IF ~cur.isList
           THEN pc' = "resolved" /\ result' = NullResult
           ELSE /\ pc' = "walk"
                /\ idx' = idx + 1
                /\ cur'.className = cur.className
                /\ ~cur'.isList
      ]_vars

\* a subscript was applied to a collection reached through an association
C3_Witness ==
    /\ pc = "walk"
    /\ idx = 4
    /\ parseChainParts(chain)[3].isListAccess
    /\ cur.className = sProjektPhase
    /\ ~cur.isList

\* C4: a named part on a collection makes resolveChain return {null, false},
\* whether an association step or the base variable made the collection.
C4_NamedOnCollection ==
    [][ ( AtPart /\ ~Part.isListAccess /\ cur.isList )
        => ( pc' = "resolved" /\ result' = NullResult )
      ]_vars

\* a named part failed on the base variable, which holds a collection
C4_Witness ==
    /\ FailedAtPart
    /\ idx = 2
    /\ ~Part.isListAccess
    /\ cur.isList
    /\ result = NullResult

\* C5 as claimed: when the named member's declared type maps to no class and
\* an association carries the name, the chain advances through the
\* association.
C5_UnmappedMemberFallsThrough ==
    [][ ( /\ AtPart
          /\ NamedOnElement
          /\ NamedMember # 0
          /\ mapMemberTypeToClassName(
                 CurItems.members[NamedMember].member_type, schema) = NULL
          /\ NamedAssociation # 0 )
        => ( pc' = "walk" /\ idx' = idx + 1 )
      ]_vars

\* C5: when a named part matches a member with a declared type that maps to
\* no class, resolveChain returns {null, false} without consulting the
\* associations; when no member matches or the matching member has no
\* declared type, and an association carries the name, the chain advances
\* to a class of that association.
C5_UnmappedMemberFails ==
    [][ ( AtPart /\ NamedOnElement )
        => /\ ( /\ NamedMember # 0
                /\ CurItems.members[NamedMember].member_type # NULL
                /\ mapMemberTypeToClassName(
                       CurItems.members[NamedMember].member_type, schema) = NULL )
              => ( pc' = "resolved" /\ result' = NullResult )
           /\ ( /\ \/ NamedMember = 0
                   \/ CurItems.members[NamedMember].member_type = NULL
                /\ NamedAssociation # 0 )
              => ( /\ pc' = "walk"
                   /\ idx' = idx + 1
                   /\ cur'.className \in
                        { CurItems.associations[NamedAssociation].role1_class.name,
                          CurItems.associations[NamedAssociation].role2_class.name } )
      ]_vars

\* resolveChain returned {null, false} at a part that names both a member
\* with an unmapped declared type and an association
C5_Witness ==
    /\ FailedAtPart
    /\ NamedOnElement
    /\ NamedMember # 0
    /\ CurItems.members[NamedMember].member_type = sString
    /\ NamedAssociation # 0
    /\ result = NullResult

\* no line at or above the cursor binds a variable whose name contains v
NoBinding(v) ==
    \A i \in 1..position :
        document[i].kind \in {"assign", "for", "def"}
            => ~includes(document[i].var, v)

\* C6: every resolveChain call that returns, returns a non-null type or
\* exactly {null, false}; a call that fails at a part returns {null, false},
\* not the type reached before it; and a call whose base identifier has no
\* binding returns {null, false}: it does not throw.
C6_NoPartialResult ==
    /\ pc \in {"resolved", "completed"}
          => ( result.className = NULL => ~result.isList )
    /\ FailedAtPart => result = NullResult
    /\ ( pc # "idle" /\ NoBinding(chain[1]) )
          => ( pc \in {"resolved", "completed"} /\ result = NullResult )

\* resolveChain returned for `unknown_var.foo`
C6_Witness ==
    /\ pc = "resolved"
    /\ chain = <<unknown_var, foo>>
    /\ NoBinding(unknown_var)
    /\ result = NullResult

\* C7: `projekt.phasen`, ending on the multi-valued association phasen,
\* resolves with isList = true; and provideCompletionItems returns no
\* suggestions when the resolved chain has a null type or ends on a list.
C7_CollectionSuppressesCompletions ==
    /\ ( /\ pc \in {"resolved", "completed"}
         /\ chain = <<projekt, phasen>>
         /\ idx = 3
         /\ FarMulti(schema[1].associations[1], schema[1]) )
          => result.isList
    /\ ( pc = "completed" /\ (result.className = NULL \/ result.isList) )
          => items = Undefined

\* an enriched item without its sourceClass
Untagged(e) == [f \in (DOMAIN e) \ {"sourceClass"} |-> e[f]]
\* the names that identify a class
NamesOf(cls) == {cls.name, cls.name_alt} \ {NULL}
\* enriched is exactly the items own, in order, each tagged with cls
OwnOf(enriched, own, cls) ==
    /\ Len(enriched) = Len(own)
    /\ \A i \in 1..Len(own) :
          /\ Untagged(enriched[i]) = own[i]
          /\ enriched[i].sourceClass \in NamesOf(cls)

\* C8: for a class without a superclass reference resolveInheritance returns
\* exactly the class's own members and associations, in order, each tagged
\* with the class.
C8_NoSuperclass ==
    ( ipc = "done" /\ schema[target].superclass = NoSuperclass )
    => /\ OwnOf(members, schema[target].members, schema[target])
       /\ OwnOf(associations, schema[target].associations, schema[target])

\* resolveInheritance returned for a class without superclass reference
C8_Witness ==
    /\ ipc = "done"
    /\ schema[target].superclass = NoSuperclass
    /\ Len(members) > 0

\* a, b, c is an acyclic superclass chain a -> b -> c that ends at c
IsChain(a, b, c) ==
    /\ a # b /\ b # c /\ a # c
    /\ schema[a].superclass = schema[b].class_id
    /\ schema[b].superclass = schema[c].class_id
    /\ schema[c].superclass = NoSuperclass

\* C9: for an acyclic chain A -> B -> C resolveInheritance(A) returns A's
\* own items, then B's, then C's, each tagged with its class and each once.
C9_ChainOrder ==
    \A b, c \in ClassIds :
        ( ipc = "done" /\ IsChain(target, b, c) )
        => LET na == Len(schema[target].members)
               nb == Len(schema[b].members)
               nc == Len(schema[c].members)
               ka == Len(schema[target].associations)
               kb == Len(schema[b].associations)
               kc == Len(schema[c].associations)
           IN /\ Len(members) = na + nb + nc
              /\ OwnOf(SubSeq(members, 1, na), schema[target].members, schema[target])
              /\ OwnOf(SubSeq(members, na + 1, na + nb), schema[b].members, schema[b])
              /\ OwnOf(SubSeq(members, na + nb + 1, na + nb + nc),
                       schema[c].members, schema[c])
              /\ Len(associations) = ka + kb + kc
              /\ OwnOf(SubSeq(associations, 1, ka),
                       schema[target].associations, schema[target])
              /\ OwnOf(SubSeq(associations, ka + 1, ka + kb),
                       schema[b].associations, schema[b])
              /\ OwnOf(SubSeq(associations, ka + kb + 1, ka + kb + kc),
                       schema[c].associations, schema[c])

\* resolveInheritance returned for the first class of a chain of three
C9_Witness ==
    /\ ipc = "done"
    /\ \E b, c \in ClassIds : IsChain(target, b, c)
    /\ Len(members) = 3

\* C10: resolveInheritance ends without exhausting the call stack, and the
\* walk never enters a class id it has already visited.
C10_WalkVisitsOnce ==
    /\ ipc # "overflow"
    /\ \A i, j \in 1..Len(stack) :
          i # j => schema[stack[i]].class_id # schema[stack[j]].class_id

\* the class whose collectFromClass call is on top of the stack
TopClass == schema[stack[Len(stack)]]

\* C11: when the superclass reference of a class names an id that no class
\* of the set has, resolveInheritance takes the class to have no further
\* ancestors: it adds the class's own items to those collected so far and
\* returns, without throwing.
C11_DanglingSuperclass ==
    [][ ( ipc = "collect" /\ TopClass.superclass = DanglingId )
        => ( /\ ipc' = "done"
             /\ members' = members \o ownMembers(TopClass)
             /\ associations' = associations \o ownAssociations(TopClass) )
      ]_vars

\* resolveInheritance returned after it walked from the target to an
\* ancestor whose superclass reference dangles
C11_Witness ==
    /\ ipc = "done"
    /\ Len(stack) >= 2
    /\ TopClass.superclass = DanglingId
    /\ Len(members) >= 2

\* the association of the schemas: role1 is Projekt, role2 is ProjektPhase
TheAssociation == schema[1].associations[1]

Seeded == pc = "idle" /\ pc' # "idle"

\* no expression of the variable-type tracker matches the line for v, and
\* the line ends no scan
NoMatch(line, v) ==
    /\ inlineMatch(line, v) = NULL
    /\ ~forLoopMatch(line, v)
    /\ ~assignmentMatch(line, v)
    /\ paramMatch(line, v) = NULL
    /\ ~isBoundary(line)

\* scanning upward from the cursor, the tracker finds the binding of v in
\* the loop header on line i
LoopBindingAt(doc, i, v) ==
    /\ forLoopMatch(doc[i], v)
    /\ \A j \in (i + 1)..Len(doc) : NoMatch(doc[j], v)

\* the element type of the expression the loop on line i iterates over:
\* the class the expression resolves to when it resolves to a collection,
\* NULL otherwise
ElementType(doc, i) ==
    LET r == IF Len(doc[i].expr) = 1
             THEN findVariableAssignmentWithListInfo(
                      schema, doc, i, doc[i].expr[1], Fuel - 1)
             ELSE resolveChain(schema, doc, i, doc[i].expr, Fuel - 1)
    IN IF r.kind = "ok" /\ r.isList THEN r.className ELSE NULL

\* C13: when the tracker finds the binding of the base variable in a loop
\* header `for v in <expression>:`, the type of v is the element type of
\* <expression> if that resolves to a collection and null otherwise; it is
\* not a type taken from the annotation of another line.
C13_LoopVariableType ==
    [][ \A i \in 1..Len(document) :
          ( Seeded /\ LoopBindingAt(document, i, chain'[1]) )
          => IF ElementType(document, i) = NULL
             THEN pc' = "resolved" /\ result' = NullResult
             ELSE pc' = "walk" /\ cur'.className = ElementType(document, i)
      ]_vars

\* the lines of the block the cursor is in: from the nearest line at or
\* above the cursor that begins a function definition, at any indentation,
\* down to the cursor line
BlockOf(doc) ==
    LET starts == { i \in 1..Len(doc) : doc[i].kind \in {"def", "idef"} }
        first == IF starts = {} THEN 1
                 ELSE CHOOSE i \in starts : \A j \in starts : j <= i
    IN SubSeq(doc, first, Len(doc))

\* C14: the tracker stops at the nearest line that begins a function
\* definition, at any indentation: the type and the collection flag of the
\* base variable are those found in the lines of the cursor's block alone,
\* and null / false when nothing matches there.
C14_NoLeakAcrossBoundary ==
    [][ Seeded
        => LET block == BlockOf(document)
               s == seedChain(schema, block, Len(block), chain', Fuel - 1)
           IN IF s.kind = "ok"
              THEN /\ pc' = "walk"
                   /\ cur' = [className |-> s.className, isList |-> s.isList]
              ELSE pc' = "resolved" /\ result' = NullResult
      ]_vars

\* getModel(false) / getTranslations(false) ran on cache c in this step: it
\* returned from the cache, or it found nothing to return and awaits a fetch
GetStep(c) ==
    /\ ret = NoReturn
    /\ \/ ret'.op = c /\ ret'.hit
       \/ "miss" \in inflight'[c] \ inflight[c]

\* FetchDone: the list the API delivered was stored by set() in this step
SetStep(c) == ret = NoReturn /\ ret'.op = c /\ ~ret'.hit

\* C15: whatever getModel, getTranslations, the clear and reload commands
\* and restarts came before, a snapshot returned from the cache was fetched
\* at most the configured lifetime before the call.
C15_NoStaleSnapshotServed ==
    ret.hit => ret.at - ret.value.value.fetched <= maxAge(CACHE_LIFETIME)

\* C16: with the entry of a cache written at time T, a get at T + lifetime
\* - 1 second returns the stored data and a get at T + lifetime + 1 second
\* returns null.
C16_ExpiryBoundary ==
    [][ \A c \in CacheNames :
          ( GetStep(c) /\ cache[c].present )
          => /\ now = cache[c].timestamp + maxAge(CACHE_LIFETIME) - Second
                  => ret' = Returned(c, TRUE, StoredData(cache[c].data))
             /\ now = cache[c].timestamp + maxAge(CACHE_LIFETIME) + Second
                  => ret' = ret
      ]_vars

\* get returned the stored data one second before the entry's lifetime ends
C16_Witness ==
    /\ ret.hit
    /\ cache[ret.op].present
    /\ ret.value = StoredData(cache[ret.op].data)
    /\ ret.at = cache[ret.op].timestamp + maxAge(CACHE_LIFETIME) - Second

\* C17: a get on an entry older than the lifetime returns null and purges
\* the entry: it is removed from memory, the persisted data is cleared and
\* the clearing of the persisted timestamp is under way; and an entry that
\* is gone from memory and from globalState comes back only through set.
C17_ExpiredGetPurges ==
    [][ \A c \in CacheNames :
          /\ ( /\ GetStep(c)
               /\ cache[c].present
               /\ now - cache[c].timestamp > maxAge(CACHE_LIFETIME) )
             => ( /\ ret' = ret
                  /\ ~cache'[c].present
                  /\ ~gsData'[c].present
                  /\ pending' = Append(pending, AbsentTimestamp) )
          /\ ( /\ ~cache[c].present
               /\ ~gsData[c].present
               /\ cache'[c].present \/ gsData'[c].present )
             => SetStep(c)
      ]_vars

\* getModel awaits a fetch one second past the lifetime of an entry written
\* at the start: the entry is gone from memory and from globalState, and
\* the clearing of the timestamp waits
C17_Witness ==
    /\ "miss" \in inflight["model"]
    /\ now = Start + maxAge(CACHE_LIFETIME) + Second
    /\ ~cache["model"].present
    /\ ~gsData["model"].present
    /\ gsTimestamp = StoredTimestamp(Start)
    /\ pending = <<AbsentTimestamp>>

\* C18: while the model cache holds an unexpired entry, getModel(false)
\* returns the snapshot of that entry, starts no fetch and leaves the entry
\* and globalState as they are; an empty list in the cache is returned like
\* any other.
C18_CachedGetIdempotent ==
    [][ ( /\ GetStep("model")
          /\ cache["model"].present
          /\ ~(now - cache["model"].timestamp > maxAge(CACHE_LIFETIME)) )
        => ( /\ ret' = Returned("model", TRUE, StoredData(cache["model"].data))
             /\ inflight' = inflight
             /\ cache' = cache
             /\ gsData' = gsData
             /\ gsTimestamp' = gsTimestamp
             /\ pending' = pending )
      ]_vars

\* getModel(false) returned an empty class list from the cache
C18_Witness ==
    /\ ret.op = "model"
    /\ ret.hit
    /\ ret.value.value.list = << >>
    /\ cache["model"] = Entry(ret.value.value, cache["model"].timestamp)

\* no two entries of the list have the same class_id
NoDuplicateIds(list) ==
    \A i, j \in 1..Len(list) : i # j => list[i].class_id # list[j].class_id

\* C19: the class list getModel returns, and the one it stores in the
\* cache, holds no two entries with the same class_id, whatever pages the
\* API delivered.
C19_NoDuplicateClassIds ==
    /\ ret.op = "model" => NoDuplicateIds(ret.value.value.list)
    /\ cache["model"].present => NoDuplicateIds(cache["model"].data.list)

\* C20: the model cache receives a snapshot only from the fetch that
\* reloadModel started, and a getClasses call of a completion request
\* starts no fetch: every fetch that begins is the one of reloadModel.
C20_OnlyReloadReplacesSnapshot ==
    [][ /\ inflight'["model"] \ inflight["model"] \subseteq {"reload"}
        /\ ( cache'["model"].present /\ cache'["model"] # cache["model"] )
              => inflight["model"] \ inflight'["model"] = {"reload"}
      ]_vars

\* reloadModel ran up to the await of its fetch in this step
ReloadStep == "reload" \in inflight'["model"] \ inflight["model"]

\* C21: from the start of a reload the model cache keeps the snapshot it
\* held: the step that starts the reload leaves the entry of the model
\* cache and the persisted model data as they are, so that the old snapshot
\* is served until the fetch completes and is still there when it fails.
C21_ReloadKeepsSnapshot ==
    [][ ( ReloadStep /\ cache["model"].present )
        => ( /\ cache'["model"] = cache["model"]
             /\ gsData'["model"] = gsData["model"] )
      ]_vars

\* a getModel call that awaited the API ended in this step
FetchEnded ==
    /\ inflight'["model"] # inflight["model"]
    /\ inflight'["model"] \subseteq inflight["model"]

\* C22: when the fetch fails getModel throws and writes nothing to the
\* cache or to globalState; a request that finds no classes gets
\* {null, false} from resolveChain and no suggestions from
\* provideCompletionItems; and a request is rejected only where it is
\* rejected with the schema at hand as well (the recursion of C26), never
\* by the failure of the fetch.
C22_FetchFailureAbsorbed ==
    /\ [][ FetchEnded
            => ( /\ ret' = ret
                 /\ cache' = cache
                 /\ gsData' = gsData
                 /\ gsTimestamp' = gsTimestamp
                 /\ pending' = pending )
          ]_vars
    /\ []( /\ pc = "resolved" => result = NullResult
           /\ pc = "completed" => items = Undefined
           /\ pc = "threw" =>
                 seedChain(ClassSet(TreeSup, FALSE, TRUE, sProjekt, << >>),
                           document, position, chain, Fuel - 1).kind = "throw" )

\* a request on a chain whose base variable is annotated got no classes
\* and ended without suggestions, with nothing in the model cache
C22_Witness ==
    /\ pc = "completed"
    /\ schema = NoClasses
    /\ findVariableTypeSimple(schema, document, position, chain[1], Fuel - 1)
          = Returns(sProjekt, FALSE)
    /\ items = Undefined
    /\ inflight["model"] = {}
    /\ ~cache["model"].present

\* the outcome of the loop iteration of this step is r
StepOutcome(r) ==
    CASE r.kind = "ok" ->
           /\ pc' = "walk"
           /\ idx' = idx + 1
           /\ cur' = [className |-> r.className, isList |-> r.isList]
      [] r.kind = "return" -> pc' = "resolved" /\ result' = NullResult
      [] r.kind = "throw"  -> pc' = "threw"

\* C23: a named segment resolves as the segment in lower case does, for
\* members and associations alike: `Aktiv`, `aktiv` and `AKTIV` give the
\* same result from the same class of the same schema.
C23_LookupIgnoresCase ==
    [][ ( AtPart /\ ~Part.isListAccess )
        => StepOutcome(walkPart(schema,
                                [Part EXCEPT !.name = toLowerCase(@)], cur))
      ]_vars

\* the segment `AKTIV` was resolved to the class of the member aktiv
C23_Witness ==
    /\ pc = "walk"
    /\ chain = <<projekt, phasen, Subscript0, AKTIV>>
    /\ idx = 5
    /\ cur.className = sProjekt

\* the classes of the schema found by name lookup of a declared type:
\* name or alternate name is the type, letter case aside
ClassNamed(memberType) ==
    { i \in 1..Len(schema) :
         \/ toLowerCase(schema[i].name) = toLowerCase(memberType)
         \/ toLowerCase(schema[i].name_alt) = toLowerCase(memberType) }

\* C24: a step through a member with a declared type advances only to a
\* class whose name or alternate name is the declared type; when no class
\* has the declared type for a name, the step does not advance.
C24_MemberTypeByNameLookup ==
    [][ ( /\ AtPart
          /\ NamedOnElement
          /\ NamedMember # 0
          /\ CurItems.members[NamedMember].member_type # NULL
          /\ pc' = "walk" )
        => \E i \in ClassNamed(CurItems.members[NamedMember].member_type) :
              cur'.className = schema[i].name
      ]_vars

\* a step of compareClipboard (the steps of the user leave cmp alone)
CompareStep == cmp' # cmp

\* C25: compareClipboard changes the text of the active document only when
\* the prompt is answered 'Yes', and the text is then the clipboard
\* content; a call that returns for want of an editor, on an empty
\* clipboard or on identical content opens no comparison document and
\* changes nothing.
C25_ReplaceOnlyOnYes ==
    [][ CompareStep
        => /\ fileText' # fileText
                => ( cmp.pc = "prompt" /\ cmp'.choice = "Yes" )
           /\ ( cmp.pc = "prompt" /\ cmp'.choice = "Yes" )
                => fileText' = cmp.clipboardContent
           /\ cmp.pc \in {"idle", "readText"}
                => ( fileText' = fileText /\ ~cmp'.comparison )
           /\ ( cmp.pc = "idle" /\ ~activeEditor ) => cmp'.pc = "idle"
           /\ ( cmp.pc = "readText"
                /\ (clipboard = << >> \/ fileText = clipboard) )
                => cmp'.pc = "idle"
      ]_vars

\* C26: resolveChain ends with a result on every document: the part of
\* it that finds the type of the base variable never exhausts the call
\* stack, a self-referring assignment on or above the cursor line included.
C26_TrackerTerminates ==
    [][ Seeded => pc' # "threw" ]_vars

\* C27: each dataset has its own persisted (data, timestamp) pair: while
\* the data persisted for a dataset stays as it is, with the timestamp of
\* its own fetch beside it, no step that completes the writes to
\* globalState changes that timestamp, whatever set(), clear() or purge
\* the other cache went through.
C27_CachesIndependent ==
    [][ \A c \in CacheNames :
          ( /\ gsData[c].present
            /\ gsData'[c] = gsData[c]
            /\ gsTimestamp = StoredTimestamp(gsData[c].value.fetched)
            /\ pending' = << >> )
          => gsTimestamp' = gsTimestamp
      ]_vars

\* some line at or above the cursor binds exactly the identifier v
BindsExactly(doc, v) ==
    \E i \in 1..Len(doc) :
        doc[i].kind \in {"assign", "for", "def", "idef"} /\ doc[i].var = v

\* C28: the tracker takes a line for the binding of the base identifier
\* only when the line binds exactly that identifier: when no line does,
\* the base variable has no type and resolveChain returns {null, false}.
C28_ExactIdentifierOnly ==
    [][ ( Seeded /\ ~BindsExactly(document, chain'[1]) )
        => ( pc' = "resolved" /\ result' = NullResult )
      ]_vars

\* the persisted pair of cache c is the entry the cache holds in memory
Converged(c) ==
    /\ gsData[c] = StoredData(cache[c].data)
    /\ gsTimestamp = StoredTimestamp(cache[c].timestamp)

\* the step completes the last waiting write, and it is the write of a clear
LastWriteOfClear ==
    /\ pending # << >>
    /\ pending' = << >>
    /\ gsTimestamp' = AbsentTimestamp

\* C29: once no write to globalState waits, the persisted pair of a cache
\* whose last operation was set() (it holds an entry in memory) is the
\* data and the timestamp of that set(), never the data without a
\* timestamp or beside the timestamp of another set(); and when the last
\* write of a clear() has completed, a cache without an entry in memory
\* has neither data nor timestamp persisted.
C29_PersistentConverges ==
    /\ [][ LastWriteOfClear =>
              \E c \in CacheNames :
                  ~cache'[c].present /\ ~gsData'[c].present ]_vars
    /\ []( pending = << >> =>
              \A c \in CacheNames : cache[c].present => Converged(c) )

\* the handler of the panel receives a 'goBack' message
GoBackArrives ==
    /\ browse.panel = "open"
    /\ browse.inbox # << >>
    /\ Head(browse.inbox) = "goBack"
    /\ browse'.inbox = Tail(browse.inbox)

\* C30: the promise of showClassDetailView becomes true only when a
\* 'goBack' message arrives at the open panel, and it is true after every
\* such arrival although the handler disposes the panel; a settled promise
\* keeps its value while the view is awaited; after true the list of the
\* same class is shown again, after false modelBrowse has ended.
C30_DetailViewOutcome ==
    [][ /\ ( browse'.settled = "true" /\ browse.settled # "true" )
              => GoBackArrives
        /\ GoBackArrives
              => ( browse'.settled = "true" /\ browse'.panel = "disposed" )
        /\ ( browse.pc = "view" /\ browse.settled = "true" )
              => \/ browse'.pc = "view" /\ browse'.settled = "true"
                 \/ /\ browse'.pc = "details"
                    /\ browse'.selectedClass = browse.selectedClass
        /\ ( browse.pc = "view" /\ browse.settled = "false" )
              => \/ browse'.pc = "view" /\ browse'.settled = "false"
                 \/ browse' = NoBrowse
      ]_vars

\* 'goBack' was handled: the panel is disposed and the promise is true
C30_Witness ==
    /\ browse.pc = "view"
    /\ browse.panel = "disposed"
    /\ browse.settled = "true"

====
